---- MODULE Spec2Model ----
(***************************************************************************)
(* Model of busca_licitacoes_pncp.py: the bounded-retry HTTP fetcher, the  *)
(* two pagination sweeps (proposta / atualizacao), the keyword and region  *)
(* filter, the CSV export and the e-mail notification, as run by main().   *)
(*                                                                         *)
(* Text is modelled as a sequence of characters (one-character strings).   *)
(* The accented letters of the source are written with ASCII names:        *)
(*   c_ced = c-cedilla, a_agudo = a-acute, a_til = a-tilde,                *)
(*   e_agudo = e-acute, o_til = o-tilde (upper case: C_CED, A_AGUDO, ...). *)
(***************************************************************************)
EXTENDS Naturals, Sequences, FiniteSets

VARIABLES
    pc,                 \* position of the run inside main() and its callees
    tentativa,          \* fazer_requisicao_com_retry: loop variable
    response,           \* fazer_requisicao_com_retry: outcome of requests.get
    retorno,            \* value returned by the last call of the fetcher
    endpoint,           \* endpoint of the sweep in progress
    todas_contratacoes, \* accumulator of the sweep in progress
    pagina_atual,       \* page index of the sweep in progress
    total_paginas,      \* page count of the sweep in progress
    contratacoes,       \* consultar_contratacoes_recentes / main: records
    relevantes,         \* main: filtered records
    arquivo_csv,        \* main: path returned by salvar_resultados_csv
    email_config,       \* EMAIL_REMETENTE, EMAIL_SENHA, EMAIL_DESTINATARIO set?
    pasta_existe,       \* filesystem: PASTA_RESULTADOS exists
    arquivo,            \* filesystem: rows of the export file, or SemArquivo
    enviado,            \* result of enviar_email_notificacao, or "nao_chamado"
    \* ---- history of the run (observation only, never read by the program)
    pedidos,            \* HTTP requests issued by the fetcher call in progress
    falhas,             \* attempts of that call answered by an exception or a status other than 200
    esperas,            \* waits (seconds) performed by that call, in order
    registro,           \* page requests of the run: <<endpoint, page>> per call
    servidas,           \* data added to the accumulator, one entry per page
    totais,             \* "totalPaginas" of each body processed, "ausente" when it had none
    fim_varredura,      \* how the last sweep ended
    primario,           \* result of the primary sweep once it returned
    alternativo,        \* result of the alternate sweep once it returned
    excecao,            \* the uncaught exception that ended the run, if any
    escritas,           \* number of times the export file was opened for writing
    submissoes,         \* SMTP connections opened
    mensagens,          \* messages handed to the mail server
    etapas,             \* stages of main entered, in order
    \* ---- inputs and outputs of the pure functions (SpecFiltro)
    entrada,
    saida

varsFetch == <<tentativa, response, retorno, pedidos, falhas, esperas>>
varsSweep == <<endpoint, todas_contratacoes, pagina_atual, total_paginas,
               registro, servidas, totais, fim_varredura>>
varsMain  == <<contratacoes, relevantes, arquivo_csv, primario, alternativo, etapas>>
varsEnv   == <<email_config, pasta_existe, arquivo, enviado, escritas,
               submissoes, mensagens>>
varsFun   == <<entrada, saida>>
vars == <<pc, excecao, varsFetch, varsSweep, varsMain, varsEnv, varsFun>>

----------------------------------------------------------------------------
(* Bounds of the model *)

\* largest total-page count the upstream API reports
MaxTotal == 2
\* longest organization name enumerated over AlfabetoNome
MaxNome == 3
\* longest record list given to filtrar_contratacoes_relevantes on its own
MaxLista == 3

----------------------------------------------------------------------------
(* Configuration *)

MAX_RETRIES == 5
RETRY_DELAY == 5
RETRY_BACKOFF == 2
tamanhoPagina == 100

FILTRO_PARANA ==
    << <<"p", "a", "r", "a", "n", "a_agudo">>,
       <<"p", "a", "r", "a", "n", "a">>,
       <<"p", "r">>,
       <<"c", "u", "r", "i", "t", "i", "b", "a">>,
       <<"l", "o", "n", "d", "r", "i", "n", "a">>,
       <<"m", "a", "r", "i", "n", "g", "a_agudo">>,
       <<"m", "a", "r", "i", "n", "g", "a">>,
       <<"p", "o", "n", "t", "a", " ", "g", "r", "o", "s", "s", "a">>,
       <<"c", "a", "s", "c", "a", "v", "e", "l">>,
       <<"s", "a_til", "o", " ", "j", "o", "s", "e_agudo", " ", "d", "o", "s", " ", "p", "i", "n", "h", "a", "i", "s">>,
       <<"s", "a", "o", " ", "j", "o", "s", "e", " ", "d", "o", "s", " ", "p", "i", "n", "h", "a", "i", "s">>,
       <<"f", "o", "z", " ", "d", "o", " ", "i", "g", "u", "a", "c_ced", "u">>,
       <<"f", "o", "z", " ", "d", "o", " ", "i", "g", "u", "a", "c", "u">>,
       <<"c", "o", "l", "o", "m", "b", "o">>,
       <<"g", "u", "a", "r", "a", "p", "u", "a", "v", "a">> >>

PALAVRAS_CHAVE ==
    << <<"o", "b", "r", "a">>,
       <<"e", "n", "g", "e", "n", "h", "a", "r", "i", "a">>,
       <<"c", "o", "n", "s", "t", "r", "u", "c_ced", "a_til", "o">>,
       <<"r", "e", "f", "o", "r", "m", "a">>,
       <<"p", "a", "v", "i", "m", "e", "n", "t", "a", "c_ced", "a_til", "o">>,
       <<"e", "d", "i", "f", "i", "c", "a", "c_ced", "a_til", "o">>,
       <<"i", "n", "f", "r", "a", "e", "s", "t", "r", "u", "t", "u", "r", "a">>,
       <<"s", "a", "n", "e", "a", "m", "e", "n", "t", "o">> >>

----------------------------------------------------------------------------
(* Text: str.lower, the `in` operator on strings, str.startswith *)

LetrasMaiusculas ==
    <<"A", "B", "C", "D", "E", "F", "G", "H", "I", "J", "K", "L", "M",
      "N", "O", "P", "Q", "R", "S", "T", "U", "V", "W", "X", "Y", "Z",
      "C_CED", "A_AGUDO", "A_TIL", "E_AGUDO", "O_TIL">>

LetrasMinusculas ==
    <<"a", "b", "c", "d", "e", "f", "g", "h", "i", "j", "k", "l", "m",
      "n", "o", "p", "q", "r", "s", "t", "u", "v", "w", "x", "y", "z",
      "c_ced", "a_agudo", "a_til", "e_agudo", "o_til">>

\* str.lower on one character: cased letters map to lower case, the rest stay
lower_char(c) ==
    IF \E i \in DOMAIN LetrasMaiusculas : LetrasMaiusculas[i] = c
    THEN LetrasMinusculas[CHOOSE i \in DOMAIN LetrasMaiusculas : LetrasMaiusculas[i] = c]
    ELSE c

lower(s) == [i \in 1..Len(s) |-> lower_char(s[i])]

\* Python's `sub in s` for strings
contido(sub, s) ==
    \E i \in 0..Len(s) :
        /\ i + Len(sub) <= Len(s)
        /\ SubSeq(s, i + 1, i + Len(sub)) = sub

startswith(s, prefixo) ==
    /\ Len(prefixo) <= Len(s)
    /\ SubSeq(s, 1, Len(prefixo)) = prefixo

----------------------------------------------------------------------------
(* JSON values as the program sees them after response.json() *)

Str(s) == [t |-> "str", v |-> s]
Nulo == [t |-> "null", v |-> <<>>]
\* a JSON integer; v is empty because the program never reads it as text
Num(k) == [t |-> "num", v |-> <<>>, n |-> k]
\* a JSON object: campos is the function from its keys to their values
Mapa(campos) == [t |-> "map", campos |-> campos]

\* dict.get(chave, padrao)
get(d, chave, padrao) ==
    IF chave \in DOMAIN d.campos THEN d.campos[chave] ELSE padrao

----------------------------------------------------------------------------
(* eh_do_parana and the keyword test of filtrar_contratacoes_relevantes *)

\* line 204: " pr ", " pr," or " pr." inside the name padded with one space
sigla_delimitada(razao_social) ==
    LET cercado == <<" ">> \o razao_social \o <<" ">>
    IN \/ contido(<<" ", "p", "r", " ">>, cercado)
       \/ contido(<<" ", "p", "r", ",">>, cercado)
       \/ contido(<<" ", "p", "r", ".">>, cercado)

\* lines 208 and 220
menciona_parana(texto) ==
    \/ contido(<<"p", "a", "r", "a", "n", "a">>, texto)
    \/ contido(<<"p", "a", "r", "a", "n", "a_agudo">>, texto)

\* lines 212-214 and 223-225: any entry of FILTRO_PARANA is a substring
cidade_em(texto) ==
    \E i \in DOMAIN FILTRO_PARANA : contido(FILTRO_PARANA[i], texto)

\* eh_do_parana on a record whose fields, when present, are strings
eh_do_parana(contratacao) ==
    LET cnpj == get(contratacao, "cnpjOrgao", Str(<<>>)).v
        razao_social == lower(get(contratacao, "razaoSocialOrgao", Str(<<>>)).v)
        objeto == lower(get(contratacao, "objeto", Str(<<>>)).v)
    IN IF startswith(cnpj, <<"4", "1">>) THEN TRUE
       ELSE IF sigla_delimitada(razao_social) THEN TRUE
       ELSE IF menciona_parana(razao_social) THEN TRUE
       ELSE IF cidade_em(razao_social) THEN TRUE
       ELSE IF menciona_parana(objeto) THEN TRUE
       ELSE IF cidade_em(objeto) THEN TRUE
       ELSE FALSE

\* faulty variant of eh_relevante: the objeto is compared as it was written
eh_relevante_sem_lower(contratacao) ==
    LET objeto == get(contratacao, "objeto", Str(<<>>)).v
    IN \E i \in DOMAIN PALAVRAS_CHAVE : contido(PALAVRAS_CHAVE[i], objeto)

\* line 241: any keyword is a substring of the lowercased objeto
eh_relevante(contratacao) ==
    LET objeto == lower(get(contratacao, "objeto", Str(<<>>)).v)
    IN \E i \in DOMAIN PALAVRAS_CHAVE : contido(PALAVRAS_CHAVE[i], objeto)

\* The attribute accesses of lines 238 and 196-217 raise AttributeError on an
\* item that is no mapping (no .get) or on a field that is no string (no .lower,
\* no .startswith); razaoSocialOrgao is read only when the CNPJ test fails.
filtro_levanta(item) ==
    IF item.t # "map" THEN TRUE
    ELSE \/ get(item, "objeto", Str(<<>>)).t # "str"
         \/ get(item, "cnpjOrgao", Str(<<>>)).t # "str"
         \/ /\ ~startswith(get(item, "cnpjOrgao", Str(<<>>)).v, <<"4", "1">>)
            /\ get(item, "razaoSocialOrgao", Str(<<>>)).t # "str"

\* faulty variant of manter: one of the two tests is enough
manter_um_dos_dois(contratacao) == eh_relevante(contratacao) \/ eh_do_parana(contratacao)

\* line 247
manter(contratacao) == eh_relevante(contratacao) /\ eh_do_parana(contratacao)

----------------------------------------------------------------------------
(* What the upstream API can answer *)

\* The records the API serves; the accumulators hold indices into Catalogo.
\*   1: passes both filters     2: passes neither filter
\*   3: one character of a "data" field that is a JSON string, not a list
\*   4: passes the keyword test only     5: passes the region test only
\*   6: passes both (keyword in upper case, region by the city in the name)
Catalogo ==
    << Mapa([numeroControle |-> Str(<<"0", "0", "0", "1", "/", "2", "0", "2", "5">>),
             cnpjOrgao |-> Str(<<"4", "1", "0", "0", "0", "0", "0", "0", "0", "0", "0", "1", "0", "0">>),
             razaoSocialOrgao |-> Str(<<"M", "U", "N", "I", "C", "I", "P", "I", "O">>),
             objeto |-> Str(<<"O", "b", "r", "a", " ", "d", "e", " ", "r", "e", "f", "o", "r", "m", "a">>),
             dataPublicacao |-> Str(<<"2", "0", "2", "5", "-", "0", "1", "-", "0", "2", "T", "1", "0", ":", "0", "0", ":", "0", "0">>),
             modalidade |-> Num(8)]),
       Mapa([numeroControle |-> Str(<<"0", "0", "0", "2", "/", "2", "0", "2", "5">>),
             cnpjOrgao |-> Str(<<"0", "0", "3", "9", "4", "4", "6", "0", "0", "0", "0", "1", "4", "1">>),
             razaoSocialOrgao |-> Str(<<"M", "I", "N", "I", "S", "T", "E", "R", "I", "O">>),
             objeto |-> Str(<<"A", "q", "u", "i", "s", "i", "c", "a", "o", " ", "d", "e", " ", "p", "a", "p", "e", "l">>)]),
       Str(<<"a">>),
       Mapa([numeroControle |-> Str(<<"0", "0", "0", "4", "/", "2", "0", "2", "5">>),
             cnpjOrgao |-> Str(<<"0", "0", "3", "9", "4", "4", "6", "0", "0", "0", "0", "1", "4", "1">>),
             razaoSocialOrgao |-> Str(<<"M", "I", "N", "I", "S", "T", "E", "R", "I", "O">>),
             objeto |-> Str(<<"O", "b", "r", "a", " ", "d", "e", " ", "r", "e", "f", "o", "r", "m", "a">>)]),
       Mapa([numeroControle |-> Str(<<"0", "0", "0", "5", "/", "2", "0", "2", "5">>),
             cnpjOrgao |-> Str(<<"4", "1", "0", "0", "0", "0", "0", "0", "0", "0", "0", "1", "0", "0">>),
             razaoSocialOrgao |-> Str(<<"M", "U", "N", "I", "C", "I", "P", "I", "O">>),
             objeto |-> Str(<<"A", "q", "u", "i", "s", "i", "c", "a", "o", " ", "d", "e", " ", "p", "a", "p", "e", "l">>)]),
       Mapa([numeroControle |-> Str(<<"0", "0", "0", "6", "/", "2", "0", "2", "5">>),
             cnpjOrgao |-> Str(<<"7", "6", "4", "1", "7", "0", "0", "5", "0", "0", "0", "1", "8", "6">>),
             razaoSocialOrgao |-> Str(<<"P", "R", "E", "F", "E", "I", "T", "U", "R", "A", " ", "D", "E", " ", "C", "U", "R", "I", "T", "I", "B", "A">>),
             objeto |-> Str(<<"P", "A", "V", "I", "M", "E", "N", "T", "A", "C_CED", "A_TIL", "O", " ", "A", "S", "F", "A", "L", "T", "I", "C", "A">>)]) >>

\* the lists a well-formed page carries in "data"
PaginasFixas == { <<>>, <<1>>, <<2>>, <<1, 2>> }

\* the "data" field of a body: absent, null, a number, a string, or a list
DataVals ==
    { [t |-> "ausente", itens |-> <<>>],
      [t |-> "null", itens |-> <<>>],
      [t |-> "num", itens |-> <<>>],
      [t |-> "str", itens |-> <<3>>] }
    \cup { [t |-> "lista", itens |-> p] : p \in PaginasFixas }

\* the "totalPaginas" field of a body: absent, null, a string, or an integer
TotVals ==
    { [t |-> "ausente", n |-> 0], [t |-> "null", n |-> 0], [t |-> "str", n |-> 0] }
    \cup { [t |-> "int", n |-> k] : k \in 0..MaxTotal }

Int(k) == [t |-> "int", n |-> k]

\* the body of a response: not JSON, JSON that is no object, or an object
Corpos ==
    { [forma |-> f, data |-> [t |-> "ausente", itens |-> <<>>], totalPaginas |-> Int(0)] :
          f \in {"invalido", "nao_mapa"} }
    \cup { [forma |-> "mapa", data |-> d, totalPaginas |-> tp] :
               d \in DataVals, tp \in TotVals }

\* outcomes of requests.get: a response with a status code, or a RequestException
Respostas ==
    { [tipo |-> "resposta", status_code |-> c] : c \in {200, 204, 400, 500} }
    \cup { [tipo |-> "excecao", status_code |-> 0] }

None == [tipo |-> "None", status_code |-> 0]

\* truth value of `response` at lines 127 and 172: None is false, and
\* requests.Response.__bool__ is Response.ok (no 4xx/5xx status)
verdadeiro(r) == r.tipo = "resposta" /\ r.status_code < 400

----------------------------------------------------------------------------
(* fazer_requisicao_com_retry *)

\* line 73
sucesso(r) == r.status_code = 200

\* faulty variant of tempo_espera: the exponent is the attempt number
tempo_espera_sem_menos_um(k) == RETRY_DELAY * (RETRY_BACKOFF ^ k)

\* lines 91 and 100
tempo_espera(k) == RETRY_DELAY * (RETRY_BACKOFF ^ (k - 1))

\* lines 90 and 99
deve_esperar(k) == k < MAX_RETRIES

\* faulty variant of ha_proxima: the range runs one attempt too far
ha_proxima_uma_a_mais(k) == k < MAX_RETRIES + 1

\* line 68: range(1, MAX_RETRIES + 1) has a value after k
ha_proxima(k) == k + 1 < MAX_RETRIES + 1

\* where the fetcher returns to: line 125 or line 170
ponto_retorno == IF endpoint = "proposta" THEN "aberto_resposta" ELSE "alt_resposta"

\* line 70: requests.get answers or raises
Requisitar ==
    /\ pc = "fetch"
    /\ \E r \in Respostas :
        /\ response' = r
        /\ falhas' = IF r.tipo = "excecao" \/ r.status_code # 200
                      THEN falhas + 1 ELSE falhas
    /\ pedidos' = pedidos + 1
    /\ pc' = "fetch_status"
    /\ UNCHANGED <<tentativa, retorno, esperas, excecao>>
    /\ UNCHANGED <<varsSweep, varsMain, varsEnv, varsFun>>

\* lines 73-74
RetornarResposta ==
    /\ pc = "fetch_status"
    /\ response.tipo = "resposta"
    /\ sucesso(response)
    /\ retorno' = response
    /\ pc' = ponto_retorno
    /\ UNCHANGED <<tentativa, response, pedidos, falhas, esperas, excecao>>
    /\ UNCHANGED <<varsSweep, varsMain, varsEnv, varsFun>>

\* what both failure branches do after logging: wait and go to the next
\* attempt, or leave the loop after the last one
ProximaTentativa ==
    /\ esperas' = IF deve_esperar(tentativa)
                  THEN Append(esperas, tempo_espera(tentativa))
                  ELSE esperas
    /\ IF ha_proxima(tentativa)
       THEN /\ tentativa' = tentativa + 1
            /\ pc' = "fetch"
       ELSE /\ tentativa' = tentativa
            /\ pc' = "fetch_fim"
    /\ UNCHANGED <<response, retorno, pedidos, falhas, excecao>>
    /\ UNCHANGED <<varsSweep, varsMain, varsEnv, varsFun>>

\* lines 76-93
TratarErroStatus ==
    /\ pc = "fetch_status"
    /\ response.tipo = "resposta"
    /\ ~sucesso(response)
    /\ ProximaTentativa

\* lines 95-102
TratarExcecao ==
    /\ pc = "fetch_status"
    /\ response.tipo = "excecao"
    /\ ProximaTentativa

\* lines 104-106
TodasFalharam ==
    /\ pc = "fetch_fim"
    /\ retorno' = None
    /\ pc' = ponto_retorno
    /\ UNCHANGED <<tentativa, response, pedidos, falhas, esperas, excecao>>
    /\ UNCHANGED <<varsSweep, varsMain, varsEnv, varsFun>>

\* the caller has read `response`: nothing of the fetcher's call remains
limpar_fetch ==
    /\ tentativa' = 0
    /\ response' = None
    /\ retorno' = None
    /\ pedidos' = 0
    /\ falhas' = 0
    /\ esperas' = <<>>

\* entry of fazer_requisicao_com_retry: line 68, first iteration
chamar_fetch ==
    /\ tentativa' = 1
    /\ pedidos' = 0
    /\ falhas' = 0
    /\ esperas' = <<>>
    /\ pc' = "fetch"
    /\ UNCHANGED <<response, retorno>>

----------------------------------------------------------------------------
(* Reading a page body: lines 129-134 and 174-178 *)

\* response.json() raises on a body that is no JSON, dados.get raises on JSON
\* that is no object, list.extend raises on None and on a number
corpo_levanta(corpo) ==
    \/ corpo.forma \in {"invalido", "nao_mapa"}
    \/ corpo.data.t \in {"null", "num"}

\* dados.get("data", []) as list.extend consumes it: the items of a list, the
\* characters of a string, nothing when the key is absent
itens_de(corpo) == corpo.data.itens

\* faulty variant of total_de: the default is 1
total_de_padrao_um(corpo) ==
    IF corpo.totalPaginas.t = "ausente" THEN Int(1) ELSE corpo.totalPaginas

\* dados.get("totalPaginas", 0)
total_de(corpo) ==
    IF corpo.totalPaginas.t = "ausente" THEN Int(0) ELSE corpo.totalPaginas

\* `pagina_atual < total_paginas` raises TypeError unless both are numbers
comparavel(total) == total.t = "int"

----------------------------------------------------------------------------
(* verificar_status_pncp and consultar_contratacoes_em_aberto *)

\* main, lines 397-406: the banner, then verificar_status_pncp (377-393); its
\* result, online or not, only selects a warning and is not kept
VerificarStatus ==
    /\ pc = "main"
    /\ etapas' = Append(etapas, "status")
    /\ pc' = "em_aberto"
    /\ UNCHANGED <<contratacoes, relevantes, arquivo_csv, primario, alternativo, excecao>>
    /\ UNCHANGED <<varsFetch, varsSweep, varsEnv, varsFun>>

\* line 116
total_inicial == 1

\* faulty variant of continua: the test admits the page after the last
continua_ate_igual(pagina, total) == pagina <= total.n

\* line 119
continua(pagina, total) == pagina < total.n

\* faulty variant of IniciarEmAberto: the page index starts at 1
IniciarEmAbertoPaginaUm ==
    /\ pc = "em_aberto"
    /\ endpoint' = "proposta"
    /\ todas_contratacoes' = <<>>
    /\ pagina_atual' = 1
    /\ total_paginas' = Int(total_inicial)
    /\ servidas' = <<>>
    /\ totais' = <<>>
    /\ fim_varredura' = "em_curso"
    /\ etapas' = Append(etapas, "consulta")
    /\ pc' = "aberto_loop"
    /\ UNCHANGED <<registro, contratacoes, relevantes, arquivo_csv,
                   primario, alternativo, excecao>>
    /\ UNCHANGED <<varsFetch, varsEnv, varsFun>>

\* lines 409, 150-153, 110-116
IniciarEmAberto ==
    /\ pc = "em_aberto"
    /\ endpoint' = "proposta"
    /\ todas_contratacoes' = <<>>
    /\ pagina_atual' = 0
    /\ total_paginas' = Int(total_inicial)
    /\ servidas' = <<>>
    /\ totais' = <<>>
    /\ fim_varredura' = "em_curso"
    /\ etapas' = Append(etapas, "consulta")
    /\ pc' = "aberto_loop"
    /\ UNCHANGED <<registro, contratacoes, relevantes, arquivo_csv,
                   primario, alternativo, excecao>>
    /\ UNCHANGED <<varsFetch, varsEnv, varsFun>>

\* lines 119-125: the loop test holds and the page is requested
AbertoPedirPagina ==
    /\ pc = "aberto_loop"
    /\ comparavel(total_paginas)
    /\ continua(pagina_atual, total_paginas)
    /\ registro' = Append(registro, <<endpoint, pagina_atual, tamanhoPagina>>)
    /\ chamar_fetch
    /\ UNCHANGED <<endpoint, todas_contratacoes, pagina_atual, total_paginas,
                   servidas, totais, fim_varredura, excecao>>
    /\ UNCHANGED <<varsMain, varsEnv, varsFun>>

\* line 119: the loop test fails
AbertoFimPaginas ==
    /\ pc = "aberto_loop"
    /\ comparavel(total_paginas)
    /\ ~continua(pagina_atual, total_paginas)
    /\ fim_varredura' = "completa"
    /\ pc' = "aberto_fim"
    /\ UNCHANGED <<endpoint, todas_contratacoes, pagina_atual, total_paginas,
                   registro, servidas, totais, excecao>>
    /\ UNCHANGED <<varsFetch, varsMain, varsEnv, varsFun>>

\* line 119: the loop test raises TypeError, which nothing catches
AbertoTypeError ==
    /\ pc = "aberto_loop"
    /\ ~comparavel(total_paginas)
    /\ excecao' = "TypeError"
    /\ pc' = "abortado"
    /\ UNCHANGED <<varsFetch, varsSweep, varsMain, varsEnv, varsFun>>

\* lines 127-137: the body is read and the page processed
AbertoProcessar ==
    /\ pc = "aberto_resposta"
    /\ verdadeiro(retorno)
    /\ \E corpo \in Corpos :
        /\ ~corpo_levanta(corpo)
        /\ todas_contratacoes' = todas_contratacoes \o itens_de(corpo)
        /\ servidas' = Append(servidas, itens_de(corpo))
        /\ total_paginas' = total_de(corpo)
        /\ totais' = Append(totais, corpo.totalPaginas)
    /\ pagina_atual' = pagina_atual + 1
    /\ pc' = "aberto_loop"
    /\ UNCHANGED <<endpoint, registro, fim_varredura, excecao>>
    /\ limpar_fetch
    /\ UNCHANGED <<varsMain, varsEnv, varsFun>>

\* lines 128-131, 138-140: reading the body raises, the loop is left
AbertoErroProcessar ==
    /\ pc = "aberto_resposta"
    /\ verdadeiro(retorno)
    /\ \E corpo \in Corpos : corpo_levanta(corpo)
    /\ fim_varredura' = "erro_processamento"
    /\ pc' = "aberto_fim"
    /\ UNCHANGED <<endpoint, todas_contratacoes, pagina_atual, total_paginas,
                   registro, servidas, totais, excecao>>
    /\ limpar_fetch
    /\ UNCHANGED <<varsMain, varsEnv, varsFun>>

\* faulty variant of AbertoSemResposta: the records of the earlier pages are
\* thrown away when a page cannot be fetched
AbertoSemRespostaDescarta ==
    /\ pc = "aberto_resposta"
    /\ ~verdadeiro(retorno)
    /\ todas_contratacoes' = <<>>
    /\ fim_varredura' = "sem_resposta"
    /\ pc' = "aberto_fim"
    /\ UNCHANGED <<endpoint, pagina_atual, total_paginas,
                   registro, servidas, totais, excecao>>
    /\ limpar_fetch
    /\ UNCHANGED <<varsMain, varsEnv, varsFun>>

\* lines 141-143: no response after all attempts, the loop is left
AbertoSemResposta ==
    /\ pc = "aberto_resposta"
    /\ ~verdadeiro(retorno)
    /\ fim_varredura' = "sem_resposta"
    /\ pc' = "aberto_fim"
    /\ UNCHANGED <<endpoint, todas_contratacoes, pagina_atual, total_paginas,
                   registro, servidas, totais, excecao>>
    /\ limpar_fetch
    /\ UNCHANGED <<varsMain, varsEnv, varsFun>>

\* the sweep has returned: nothing of its call remains but the list it returned
limpar_varredura ==
    /\ endpoint' = "nenhum"
    /\ todas_contratacoes' = <<>>
    /\ pagina_atual' = 0
    /\ total_paginas' = Int(0)
    /\ servidas' = <<>>
    /\ totais' = <<>>
    /\ fim_varredura' = "nenhuma"

\* lines 145-146 and the assignment of line 153
RetornarEmAberto ==
    /\ pc = "aberto_fim"
    /\ contratacoes' = todas_contratacoes
    /\ primario' = [retornou |-> TRUE, registros |-> todas_contratacoes,
                    paginas |-> pagina_atual, fim |-> fim_varredura,
                       servidas |-> servidas]
    /\ limpar_varredura
    /\ pc' = "recentes_teste"
    /\ UNCHANGED <<relevantes, arquivo_csv, alternativo, etapas, registro, excecao>>
    /\ UNCHANGED <<varsFetch, varsEnv, varsFun>>

\* lines 156-162: the primary sweep found nothing, the alternate one starts
alt_total_inicial == 1

\* faulty variant of alt_continua: the loop goes on while pagina <= total
alt_continua_ate_igual(pagina, total) == pagina <= total.n

\* line 164
alt_continua(pagina, total) == pagina < total.n

\* faulty variant of tentar_alternativo: a single record counts as none
tentar_alternativo_ate_um(cs) == Len(cs) <= 1

\* line 156: `not contratacoes`
tentar_alternativo(cs) == Len(cs) = 0

IniciarAlternativo ==
    /\ pc = "recentes_teste"
    /\ tentar_alternativo(contratacoes)
    /\ endpoint' = "atualizacao"
    /\ todas_contratacoes' = <<>>
    /\ pagina_atual' = 0
    /\ total_paginas' = Int(alt_total_inicial)
    /\ servidas' = <<>>
    /\ totais' = <<>>
    /\ fim_varredura' = "em_curso"
    /\ pc' = "alt_loop"
    /\ UNCHANGED <<registro, excecao>>
    /\ UNCHANGED <<varsFetch, varsMain, varsEnv, varsFun>>

\* lines 156, 190-191: the primary result is kept and returned to main (line 409)
RetornarPrimario ==
    /\ pc = "recentes_teste"
    /\ ~tentar_alternativo(contratacoes)
    /\ pc' = "filtrar"
    /\ UNCHANGED <<excecao, varsFetch, varsSweep, varsMain, varsEnv, varsFun>>

\* lines 164-170
AltPedirPagina ==
    /\ pc = "alt_loop"
    /\ comparavel(total_paginas)
    /\ alt_continua(pagina_atual, total_paginas)
    /\ registro' = Append(registro, <<endpoint, pagina_atual, tamanhoPagina>>)
    /\ chamar_fetch
    /\ UNCHANGED <<endpoint, todas_contratacoes, pagina_atual, total_paginas,
                   servidas, totais, fim_varredura, excecao>>
    /\ UNCHANGED <<varsMain, varsEnv, varsFun>>

\* line 164: the loop test fails
AltFimPaginas ==
    /\ pc = "alt_loop"
    /\ comparavel(total_paginas)
    /\ ~alt_continua(pagina_atual, total_paginas)
    /\ fim_varredura' = "completa"
    /\ pc' = "alt_fim"
    /\ UNCHANGED <<endpoint, todas_contratacoes, pagina_atual, total_paginas,
                   registro, servidas, totais, excecao>>
    /\ UNCHANGED <<varsFetch, varsMain, varsEnv, varsFun>>

\* line 164: the loop test raises TypeError, which nothing catches
AltTypeError ==
    /\ pc = "alt_loop"
    /\ ~comparavel(total_paginas)
    /\ excecao' = "TypeError"
    /\ pc' = "abortado"
    /\ UNCHANGED <<varsFetch, varsSweep, varsMain, varsEnv, varsFun>>

\* lines 172-181; line 175 reuses the local `contratacoes` for the page's data
AltProcessar ==
    /\ pc = "alt_resposta"
    /\ verdadeiro(retorno)
    /\ \E corpo \in Corpos :
        /\ ~corpo_levanta(corpo)
        /\ contratacoes' = itens_de(corpo)
        /\ todas_contratacoes' = todas_contratacoes \o itens_de(corpo)
        /\ servidas' = Append(servidas, itens_de(corpo))
        /\ total_paginas' = total_de(corpo)
        /\ totais' = Append(totais, corpo.totalPaginas)
    /\ pagina_atual' = pagina_atual + 1
    /\ pc' = "alt_loop"
    /\ UNCHANGED <<endpoint, registro, fim_varredura, excecao>>
    /\ UNCHANGED <<relevantes, arquivo_csv, primario, alternativo, etapas>>
    /\ limpar_fetch
    /\ UNCHANGED <<varsEnv, varsFun>>

\* lines 173-176, 182-184; a null or numeric "data" bound to `contratacoes` at
\* line 175 is replaced at line 188 before anything reads it
AltErroProcessar ==
    /\ pc = "alt_resposta"
    /\ verdadeiro(retorno)
    /\ \E corpo \in Corpos : corpo_levanta(corpo)
    /\ fim_varredura' = "erro_processamento"
    /\ pc' = "alt_fim"
    /\ UNCHANGED <<endpoint, todas_contratacoes, pagina_atual, total_paginas,
                   registro, servidas, totais, excecao>>
    /\ limpar_fetch
    /\ UNCHANGED <<varsMain, varsEnv, varsFun>>

\* lines 185-186
AltSemResposta ==
    /\ pc = "alt_resposta"
    /\ ~verdadeiro(retorno)
    /\ fim_varredura' = "sem_resposta"
    /\ pc' = "alt_fim"
    /\ UNCHANGED <<endpoint, todas_contratacoes, pagina_atual, total_paginas,
                   registro, servidas, totais, excecao>>
    /\ limpar_fetch
    /\ UNCHANGED <<varsMain, varsEnv, varsFun>>

\* lines 188-191 and the assignment of line 409
RetornarAlternativo ==
    /\ pc = "alt_fim"
    /\ contratacoes' = todas_contratacoes
    /\ alternativo' = [retornou |-> TRUE, registros |-> todas_contratacoes,
                       paginas |-> pagina_atual, fim |-> fim_varredura,
                       servidas |-> servidas]
    /\ limpar_varredura
    /\ pc' = "filtrar"
    /\ UNCHANGED <<relevantes, arquivo_csv, primario, etapas, registro, excecao>>
    /\ UNCHANGED <<varsFetch, varsEnv, varsFun>>

----------------------------------------------------------------------------
(* filtrar_contratacoes_relevantes *)

manter_indice(i) == manter(Catalogo[i])

\* lines 234-251 on a list whose items all pass the attribute accesses
filtrar_contratacoes_relevantes(cs) == SelectSeq(cs, manter_indice)

\* line 412, lines 230-251
Filtrar ==
    /\ pc = "filtrar"
    /\ \A i \in DOMAIN contratacoes : ~filtro_levanta(Catalogo[contratacoes[i]])
    /\ relevantes' = filtrar_contratacoes_relevantes(contratacoes)
    /\ etapas' = Append(etapas, "filtro")
    /\ pc' = "salvar"
    /\ UNCHANGED <<contratacoes, arquivo_csv, primario, alternativo, excecao>>
    /\ UNCHANGED <<varsFetch, varsSweep, varsEnv, varsFun>>

\* lines 238 and 196-217: an item raises AttributeError, which nothing catches
FiltrarLevanta ==
    /\ pc = "filtrar"
    /\ \E i \in DOMAIN contratacoes : filtro_levanta(Catalogo[contratacoes[i]])
    /\ etapas' = Append(etapas, "filtro")
    /\ excecao' = "AttributeError"
    /\ pc' = "abortado"
    /\ UNCHANGED <<contratacoes, relevantes, arquivo_csv, primario, alternativo>>
    /\ UNCHANGED <<varsFetch, varsSweep, varsEnv, varsFun>>

----------------------------------------------------------------------------
(* salvar_resultados_csv *)

cabecalho ==
    << <<"N", "u_agudo", "m", "e", "r", "o">>,
       <<"O_AGUDO", "r", "g", "a_til", "o">>,
       <<"C", "N", "P", "J">>,
       <<"O", "b", "j", "e", "t", "o">>,
       <<"V", "a", "l", "o", "r", " ", "E", "s", "t", "i", "m", "a", "d", "o">>,
       <<"D", "a", "t", "a", " ", "P", "u", "b", "l", "i", "c", "a", "c_ced", "a_til", "o">>,
       <<"D", "a", "t", "a", " ", "A", "b", "e", "r", "t", "u", "r", "a">>,
       <<"M", "o", "d", "a", "l", "i", "d", "a", "d", "e">>,
       <<"U", "R", "L">> >>

modalidades ==
    << <<"L", "e", "i", "l", "a_til", "o", " ", "-", " ", "E", "l", "e", "t", "r", "o_circ", "n", "i", "c", "o">>,
       <<"D", "i", "a_agudo", "l", "o", "g", "o", " ", "C", "o", "m", "p", "e", "t", "i", "t", "i", "v", "o">>,
       <<"C", "o", "n", "c", "u", "r", "s", "o">>,
       <<"C", "o", "n", "c", "o", "r", "r", "e_circ", "n", "c", "i", "a", " ", "-", " ", "E", "l", "e", "t", "r", "o_circ", "n", "i", "c", "a">>,
       <<"C", "o", "n", "c", "o", "r", "r", "e_circ", "n", "c", "i", "a", " ", "-", " ", "P", "r", "e", "s", "e", "n", "c", "i", "a", "l">>,
       <<"P", "r", "e", "g", "a_til", "o", " ", "-", " ", "E", "l", "e", "t", "r", "o_circ", "n", "i", "c", "o">>,
       <<"P", "r", "e", "g", "a_til", "o", " ", "-", " ", "P", "r", "e", "s", "e", "n", "c", "i", "a", "l">>,
       <<"D", "i", "s", "p", "e", "n", "s", "a", " ", "d", "e", " ", "L", "i", "c", "i", "t", "a", "c_ced", "a_til", "o">>,
       <<"I", "n", "e", "x", "i", "g", "i", "b", "i", "l", "i", "d", "a", "d", "e">>,
       <<"M", "a", "n", "i", "f", "e", "s", "t", "a", "c_ced", "a_til", "o", " ", "d", "e", " ", "I", "n", "t", "e", "r", "e", "s", "s", "e">>,
       <<"P", "r", "e_agudo", "-", "q", "u", "a", "l", "i", "f", "i", "c", "a", "c_ced", "a_til", "o">>,
       <<"C", "r", "e", "d", "e", "n", "c", "i", "a", "m", "e", "n", "t", "o">>,
       <<"L", "e", "i", "l", "a_til", "o", " ", "-", " ", "P", "r", "e", "s", "e", "n", "c", "i", "a", "l">> >>

Desconhecida == <<"D", "e", "s", "c", "o", "n", "h", "e", "c", "i", "d", "a">>

\* lines 304-322
obter_nome_modalidade(codigo) ==
    IF codigo.t = "num" /\ codigo.n \in DOMAIN modalidades
    THEN modalidades[codigo.n]
    ELSE Desconhecida

\* str.replace('/', '%2F')
RECURSIVE replace_barra(_)
replace_barra(s) ==
    IF s = <<>> THEN <<>>
    ELSE (IF Head(s) = "/" THEN <<"%", "2", "F">> ELSE <<Head(s)>>)
         \o replace_barra(Tail(s))

\* str.split("T")[0]
RECURSIVE antes_de_T(_)
antes_de_T(s) ==
    IF s = <<>> \/ Head(s) = "T" THEN <<>>
    ELSE <<Head(s)>> \o antes_de_T(Tail(s))

\* lines 289-290: the date part, or "" when the field is absent, null or empty
data_curta(c, chave) ==
    LET d == get(c, chave, Str(<<>>))
    IN IF d.t = "str" /\ d.v # <<>> THEN antes_de_T(d.v) ELSE <<>>

\* faulty variant of url_de: the control number is copied as it is
url_de_sem_escape(c) ==
    <<"h", "t", "t", "p", "s", ":", "/", "/", "p", "n", "c", "p", ".", "g", "o", "v", ".", "b", "r", "/", "c", "o", "n", "t", "r", "a", "t", "a", "c", "o", "e", "s", "/">>
    \o get(c, "numeroControle", Str(<<>>)).v

\* line 280
url_de(c) ==
    <<"h", "t", "t", "p", "s", ":", "/", "/", "p", "n", "c", "p", ".", "g", "o", "v", ".", "b", "r", "/", "c", "o", "n", "t", "r", "a", "t", "a", "c", "o", "e", "s", "/">>
    \o replace_barra(get(c, "numeroControle", Str(<<>>)).v)

\* lines 283-293
linha_de(c) ==
    << get(c, "numeroControle", Str(<<>>)).v,
       get(c, "razaoSocialOrgao", Str(<<>>)).v,
       get(c, "cnpjOrgao", Str(<<>>)).v,
       get(c, "objeto", Str(<<>>)).v,
       get(c, "valorTotal", Str(<<>>)).v,
       data_curta(c, "dataPublicacao"),
       data_curta(c, "dataAbertura"),
       obter_nome_modalidade(get(c, "modalidade", Num(0))),
       url_de(c) >>

\* lines 274-295: the header row, then one row per record
linhas_csv(cs) == <<cabecalho>> \o [i \in 1..Len(cs) |-> linha_de(Catalogo[cs[i]])]

\* lines 263-264
caminho_arquivo == "resultados_licitacoes/licitacoes_parana_DATA_ATUAL.csv"

SemArquivo == [existe |-> FALSE, linhas |-> <<>>]

\* faulty variant of nada_a_salvar: the test is `is None`, false of every list
nada_a_salvar_so_none(cs) == Len(cs) < 0

\* line 255
nada_a_salvar(cs) == Len(cs) = 0

\* faulty variant of SalvarVazio: a file with the header alone is written
SalvarVazioEscreve ==
    /\ pc = "salvar"
    /\ nada_a_salvar(relevantes)
    /\ arquivo' = [existe |-> TRUE, linhas |-> <<cabecalho>>]
    /\ escritas' = escritas + 1
    /\ arquivo_csv' = caminho_arquivo
    /\ etapas' = Append(etapas, "exportacao")
    /\ pc' = "notificar"
    /\ UNCHANGED <<contratacoes, relevantes, primario, alternativo, excecao>>
    /\ UNCHANGED <<email_config, pasta_existe, enviado, submissoes, mensagens>>
    /\ UNCHANGED <<varsFetch, varsSweep, varsFun>>

\* lines 415, 255-257
SalvarVazio ==
    /\ pc = "salvar"
    /\ nada_a_salvar(relevantes)
    /\ arquivo_csv' = "None"
    /\ etapas' = Append(etapas, "exportacao")
    /\ pc' = "notificar"
    /\ UNCHANGED <<contratacoes, relevantes, primario, alternativo, excecao>>
    /\ UNCHANGED <<varsFetch, varsSweep, varsEnv, varsFun>>

\* lines 415, 260, 60-64: the directory exists or os.makedirs creates it
CriarPasta ==
    /\ pc = "salvar"
    /\ ~nada_a_salvar(relevantes)
    /\ pasta_existe' = TRUE
    /\ etapas' = Append(etapas, "exportacao")
    /\ pc' = "salvar_escrever"
    /\ UNCHANGED <<contratacoes, relevantes, arquivo_csv, primario, alternativo, excecao>>
    /\ UNCHANGED <<email_config, arquivo, enviado, escritas, submissoes, mensagens>>
    /\ UNCHANGED <<varsFetch, varsSweep, varsFun>>

\* lines 260, 62-63: os.makedirs raises OSError outside the try of line 266
CriarPastaFalha ==
    /\ pc = "salvar"
    /\ ~nada_a_salvar(relevantes)
    /\ ~pasta_existe
    /\ etapas' = Append(etapas, "exportacao")
    /\ excecao' = "OSError"
    /\ pc' = "abortado"
    /\ UNCHANGED <<contratacoes, relevantes, arquivo_csv, primario, alternativo>>
    /\ UNCHANGED <<varsFetch, varsSweep, varsEnv, varsFun>>

\* lines 266-298
EscreverCsv ==
    /\ pc = "salvar_escrever"
    /\ arquivo' = [existe |-> TRUE, linhas |-> linhas_csv(relevantes)]
    /\ escritas' = escritas + 1
    /\ arquivo_csv' = caminho_arquivo
    /\ pc' = "notificar"
    /\ UNCHANGED <<contratacoes, relevantes, primario, alternativo, etapas, excecao>>
    /\ UNCHANGED <<email_config, pasta_existe, enviado, submissoes, mensagens>>
    /\ UNCHANGED <<varsFetch, varsSweep, varsFun>>

\* lines 267, 300-302: open raises and the file is left as it was
EscreverCsvFalhaAbrir ==
    /\ pc = "salvar_escrever"
    /\ arquivo_csv' = "None"
    /\ pc' = "notificar"
    /\ UNCHANGED <<contratacoes, relevantes, primario, alternativo, etapas, excecao>>
    /\ UNCHANGED <<varsFetch, varsSweep, varsEnv, varsFun>>

\* lines 267-295, 300-302: a write raises after the file was truncated; the
\* header and the first k rows may have reached the file
EscreverCsvFalhaEscrita ==
    /\ pc = "salvar_escrever"
    /\ \E k \in 0..(Len(relevantes) - 1) :
        arquivo' = [existe |-> TRUE, linhas |-> linhas_csv(SubSeq(relevantes, 1, k))]
    /\ escritas' = escritas + 1
    /\ arquivo_csv' = "None"
    /\ pc' = "notificar"
    /\ UNCHANGED <<contratacoes, relevantes, primario, alternativo, etapas, excecao>>
    /\ UNCHANGED <<email_config, pasta_existe, enviado, submissoes, mensagens>>
    /\ UNCHANGED <<varsFetch, varsSweep, varsFun>>

----------------------------------------------------------------------------
(* enviar_email_notificacao and the end of main *)

\* faulty variant of email_configurado: the password is not looked at
email_configurado_sem_senha(cfg) == cfg.remetente /\ cfg.destinatario

\* line 327
email_configurado(cfg) == cfg.remetente /\ cfg.senha /\ cfg.destinatario

\* line 332: `arquivo_csv` is a path and the file exists
arquivo_disponivel(caminho, arq) == caminho # "None" /\ arq.existe

\* line 418
deve_notificar(caminho, rs) == caminho # "None" /\ Len(rs) > 0

\* line 418 is false: the notifier is not called
NaoNotificar ==
    /\ pc = "notificar"
    /\ ~deve_notificar(arquivo_csv, relevantes)
    /\ pc' = "banner_final"
    /\ UNCHANGED <<excecao, varsFetch, varsSweep, varsMain, varsEnv, varsFun>>

\* lines 418-419: main calls enviar_email_notificacao
ChamarNotificador ==
    /\ pc = "notificar"
    /\ deve_notificar(arquivo_csv, relevantes)
    /\ etapas' = Append(etapas, "notificacao")
    /\ pc' = "email"
    /\ UNCHANGED <<contratacoes, relevantes, arquivo_csv, primario, alternativo, excecao>>
    /\ UNCHANGED <<varsFetch, varsSweep, varsEnv, varsFun>>

\* lines 327-334: nothing is sent
EmailDesativado ==
    /\ pc = "email"
    /\ ~email_configurado(email_config) \/ ~arquivo_disponivel(arquivo_csv, arquivo)
    /\ enviado' = "False"
    /\ pc' = "banner_final"
    /\ UNCHANGED <<excecao, varsMain>>
    /\ UNCHANGED <<email_config, pasta_existe, arquivo, escritas, submissoes, mensagens>>
    /\ UNCHANGED <<varsFetch, varsSweep, varsFun>>

\* lines 336-371
EnviarEmail ==
    /\ pc = "email"
    /\ email_configurado(email_config)
    /\ arquivo_disponivel(arquivo_csv, arquivo)
    /\ submissoes' = submissoes + 1
    /\ mensagens' = mensagens + 1
    /\ enviado' = "True"
    /\ pc' = "banner_final"
    /\ UNCHANGED <<excecao, varsMain>>
    /\ UNCHANGED <<email_config, pasta_existe, arquivo, escritas>>
    /\ UNCHANGED <<varsFetch, varsSweep, varsFun>>

\* the statements of lines 359-368 that can raise, in order
PontosDeFalha == <<"abrir", "conectar", "login", "enviar", "quit">>

\* lines 336-368, 373-375: statement number k raises; the connection was opened
\* if SMTP_SSL (2) returned, the message was handed over if send_message (4) did
EnviarEmailFalha ==
    /\ pc = "email"
    /\ email_configurado(email_config)
    /\ arquivo_disponivel(arquivo_csv, arquivo)
    /\ \E k \in DOMAIN PontosDeFalha :
        /\ submissoes' = IF k > 2 THEN submissoes + 1 ELSE submissoes
        /\ mensagens' = IF k > 4 THEN mensagens + 1 ELSE mensagens
    /\ enviado' = "False"
    /\ pc' = "banner_final"
    /\ UNCHANGED <<excecao, varsMain>>
    /\ UNCHANGED <<email_config, pasta_existe, arquivo, escritas>>
    /\ UNCHANGED <<varsFetch, varsSweep, varsFun>>

\* lines 421-423
BannerFinal ==
    /\ pc = "banner_final"
    /\ etapas' = Append(etapas, "fim")
    /\ pc' = "fim"
    /\ UNCHANGED <<contratacoes, relevantes, arquivo_csv, primario, alternativo, excecao>>
    /\ UNCHANGED <<varsFetch, varsSweep, varsEnv, varsFun>>

----------------------------------------------------------------------------
(* A run of main *)

SemSaida == [fn |-> "nenhuma", valor |-> FALSE]

\* lines 28-30: every address and the password set, or one of them empty
Configuracoes ==
    { c \in [remetente : BOOLEAN, senha : BOOLEAN, destinatario : BOOLEAN] :
        Cardinality({k \in {"remetente", "senha", "destinatario"} : ~c[k]}) <= 1 }

\* the environment a run starts in: the configuration and the filesystem
Ambientes == { [cfg |-> c, pasta |-> p] : c \in Configuracoes, p \in BOOLEAN }

Init ==
    /\ pc = "main"
    /\ excecao = "nenhuma"
    /\ tentativa = 0
    /\ response = None
    /\ retorno = None
    /\ pedidos = 0
    /\ falhas = 0
    /\ esperas = <<>>
    /\ endpoint = "nenhum"
    /\ todas_contratacoes = <<>>
    /\ pagina_atual = 0
    /\ total_paginas = Int(0)
    /\ registro = <<>>
    /\ servidas = <<>>
    /\ totais = <<>>
    /\ fim_varredura = "nenhuma"
    /\ contratacoes = <<>>
    /\ relevantes = <<>>
    /\ arquivo_csv = "indefinido"
    /\ primario = [retornou |-> FALSE, registros |-> <<>>,
                   paginas |-> 0, fim |-> "nenhuma", servidas |-> <<>>]
    /\ alternativo = [retornou |-> FALSE, registros |-> <<>>,
                      paginas |-> 0, fim |-> "nenhuma", servidas |-> <<>>]
    /\ etapas = <<>>
    /\ \E a \in Ambientes :
        /\ email_config = a.cfg
        /\ pasta_existe = a.pasta
    /\ arquivo = SemArquivo
    /\ enviado = "nao_chamado"
    /\ escritas = 0
    /\ submissoes = 0
    /\ mensagens = 0
    /\ entrada = Catalogo[1]
    /\ saida = SemSaida

Next ==
    \/ VerificarStatus
    \/ IniciarEmAberto
    \/ AbertoPedirPagina
    \/ AbertoFimPaginas
    \/ AbertoTypeError
    \/ Requisitar
    \/ RetornarResposta
    \/ TratarErroStatus
    \/ TratarExcecao
    \/ TodasFalharam
    \/ AbertoProcessar
    \/ AbertoErroProcessar
    \/ AbertoSemResposta
    \/ RetornarEmAberto
    \/ IniciarAlternativo
    \/ RetornarPrimario
    \/ AltPedirPagina
    \/ AltFimPaginas
    \/ AltTypeError
    \/ AltProcessar
    \/ AltErroProcessar
    \/ AltSemResposta
    \/ RetornarAlternativo
    \/ Filtrar
    \/ FiltrarLevanta
    \/ SalvarVazio
    \/ CriarPasta
    \/ CriarPastaFalha
    \/ EscreverCsv
    \/ EscreverCsvFalhaAbrir
    \/ EscreverCsvFalhaEscrita
    \/ NaoNotificar
    \/ ChamarNotificador
    \/ EmailDesativado
    \/ EnviarEmail
    \/ EnviarEmailFalha
    \/ BannerFinal

Spec == Init /\ [][Next]_vars

----------------------------------------------------------------------------
(* The filter predicates applied to single records *)

\* characters of the enumerated organization names
AlfabetoNome == {"P", "R", "A", " ", ".", ","}

NomesFixos ==
    { <<"S", "E", "R", "V", "I", "C_CED", "O", " ", "P", "R", ".">>,
      <<"P", "R", "A", "C_CED", "A", " ", "S", "E", "R", "V", "I", "C", "E", "S">>,
      <<"P", "R", "E", "F", "E", "I", "T", "U", "R", "A", " ", "D", "E", " ", "C", "U", "R", "I", "T", "I", "B", "A">>,
      <<"M", "I", "N", "I", "S", "T", "E", "R", "I", "O", " ", "D", "A", " ", "S", "A", "U", "D", "E">> }

\* every name over AlfabetoNome of at most MaxNome characters, and NomesFixos
Nomes ==
    NomesFixos \cup UNION { [1..n -> AlfabetoNome] : n \in 0..MaxNome }

CnpjsEntrada ==
    { <<"4", "1", "0", "0", "0", "0", "0", "0", "0", "0", "0", "1", "0", "0">>,
      <<"0", "0", "3", "9", "4", "4", "6", "0", "0", "0", "0", "1", "4", "1">> }

ObjetosEntrada ==
    { <<>>,
      <<"O", "B", "R", "A">>,
      <<"P", "A", "V", "I", "M", "E", "N", "T", "A", "C_CED", "A_TIL", "O">>,
      <<"M", "a", "n", "o", "b", "r", "a", "s">>,
      <<"O", "b", "r", "a", " ", "d", "e", " ", "r", "e", "f", "o", "r", "m", "a">>,
      <<"A", "q", "u", "i", "s", "i", "c", "a", "o", " ", "d", "e", " ", "p", "a", "p", "e", "l">> }

EntradasFiltro ==
    { Mapa([cnpjOrgao |-> Str(c), razaoSocialOrgao |-> Str(n), objeto |-> Str(o)]) :
        c \in CnpjsEntrada, n \in Nomes, o \in ObjetosEntrada }

\* records that carry no "objeto" field
EntradasSemObjeto ==
    { Mapa([cnpjOrgao |-> Str(c), razaoSocialOrgao |-> Str(n)]) :
        c \in CnpjsEntrada, n \in NomesFixos }

\* lists of well-typed records, as indices into Catalogo
RegistrosLista == {1, 2, 4, 5, 6}

ListasEntrada == UNION { [1..n -> RegistrosLista] : n \in 0..MaxLista }

InitFiltro ==
    /\ pc = "funcao"
    /\ excecao = "nenhuma"
    /\ tentativa = 0
    /\ response = None
    /\ retorno = None
    /\ pedidos = 0
    /\ falhas = 0
    /\ esperas = <<>>
    /\ endpoint = "nenhum"
    /\ todas_contratacoes = <<>>
    /\ pagina_atual = 0
    /\ total_paginas = Int(0)
    /\ registro = <<>>
    /\ servidas = <<>>
    /\ totais = <<>>
    /\ fim_varredura = "nenhuma"
    /\ relevantes = <<>>
    /\ arquivo_csv = "indefinido"
    /\ primario = [retornou |-> FALSE, registros |-> <<>>,
                   paginas |-> 0, fim |-> "nenhuma", servidas |-> <<>>]
    /\ alternativo = [retornou |-> FALSE, registros |-> <<>>,
                      paginas |-> 0, fim |-> "nenhuma", servidas |-> <<>>]
    /\ etapas = <<>>
    /\ email_config = [remetente |-> FALSE, senha |-> FALSE, destinatario |-> FALSE]
    /\ pasta_existe = FALSE
    /\ arquivo = SemArquivo
    /\ enviado = "nao_chamado"
    /\ escritas = 0
    /\ submissoes = 0
    /\ mensagens = 0
    /\ \/ /\ entrada \in EntradasFiltro \cup EntradasSemObjeto
          /\ contratacoes = <<>>
       \/ /\ entrada = Catalogo[1]
          /\ contratacoes \in ListasEntrada
    /\ saida = SemSaida

\* one call of eh_do_parana(entrada), lines 193-228
AplicarEhDoParana ==
    /\ pc = "funcao"
    /\ saida' = [fn |-> "eh_do_parana", valor |-> eh_do_parana(entrada)]
    /\ pc' = "funcao_fim"
    /\ UNCHANGED <<entrada, excecao, varsFetch, varsSweep, varsMain, varsEnv>>

\* lines 238-241 on one record: the value of the local `eh_relevante`
AplicarEhRelevante ==
    /\ pc = "funcao"
    /\ saida' = [fn |-> "eh_relevante", valor |-> eh_relevante(entrada)]
    /\ pc' = "funcao_fim"
    /\ UNCHANGED <<entrada, excecao, varsFetch, varsSweep, varsMain, varsEnv>>

\* one call of filtrar_contratacoes_relevantes(contratacoes), lines 230-251
AplicarFiltrar ==
    /\ pc = "funcao"
    /\ \A i \in DOMAIN contratacoes : ~filtro_levanta(Catalogo[contratacoes[i]])
    /\ relevantes' = filtrar_contratacoes_relevantes(contratacoes)
    /\ saida' = [fn |-> "filtrar_contratacoes_relevantes", valor |-> TRUE]
    /\ pc' = "funcao_fim"
    /\ UNCHANGED <<contratacoes, arquivo_csv, primario, alternativo, etapas>>
    /\ UNCHANGED <<entrada, excecao, varsFetch, varsSweep, varsEnv>>

NextFiltro ==
    \/ AplicarEhDoParana
    \/ AplicarEhRelevante
    \/ AplicarFiltrar

SpecFiltro == InitFiltro /\ [][NextFiltro]_vars

----------------------------------------------------------------------------
(* enviar_email_notificacao called on its own *)

\* EMAIL_REMETENTE, EMAIL_SENHA and EMAIL_DESTINATARIO: each set or empty
ConfiguracoesEmail ==
    [remetente : BOOLEAN, senha : BOOLEAN, destinatario : BOOLEAN]

\* the argument arquivo_csv: None or a path
CaminhosEntrada == {"None", caminho_arquivo}

\* the file at that path: missing, or an export written earlier
ArquivosEntrada == {SemArquivo, [existe |-> TRUE, linhas |-> linhas_csv(<<1>>)]}

\* the lists whose length is the argument total_licitacoes
RelevantesEntrada == {<<>>, <<1>>, <<1, 6>>}

InitNotificador ==
    /\ pc = "email"
    /\ excecao = "nenhuma"
    /\ tentativa = 0
    /\ response = None
    /\ retorno = None
    /\ pedidos = 0
    /\ falhas = 0
    /\ esperas = <<>>
    /\ endpoint = "nenhum"
    /\ todas_contratacoes = <<>>
    /\ pagina_atual = 0
    /\ total_paginas = Int(0)
    /\ registro = <<>>
    /\ servidas = <<>>
    /\ totais = <<>>
    /\ fim_varredura = "nenhuma"
    /\ contratacoes = <<>>
    /\ relevantes \in RelevantesEntrada
    /\ arquivo_csv \in CaminhosEntrada
    /\ primario = [retornou |-> FALSE, registros |-> <<>>,
                   paginas |-> 0, fim |-> "nenhuma", servidas |-> <<>>]
    /\ alternativo = [retornou |-> FALSE, registros |-> <<>>,
                      paginas |-> 0, fim |-> "nenhuma", servidas |-> <<>>]
    /\ etapas = <<>>
    /\ email_config \in ConfiguracoesEmail
    /\ pasta_existe \in BOOLEAN
    /\ arquivo \in ArquivosEntrada
    /\ enviado = "nao_chamado"
    /\ escritas = 0
    /\ submissoes = 0
    /\ mensagens = 0
    /\ entrada = Catalogo[1]
    /\ saida = SemSaida

NextNotificador ==
    \/ EmailDesativado
    \/ EnviarEmail
    \/ EnviarEmailFalha

SpecNotificador == InitNotificador /\ [][NextNotificador]_vars

----------------------------------------------------------------------------
(* Properties of fazer_requisicao_com_retry *)

\* the fetcher has just returned to the sweep that called it
fetch_retornou == pc \in {"aberto_resposta", "alt_resposta"}

\* C1: one call of fazer_requisicao_com_retry issues at least 1 and at most
\* MAX_RETRIES requests; it returns None exactly when all MAX_RETRIES attempts
\* failed (an exception or a status the fetcher does not accept, i.e. any status
\* other than 200), and then exactly MAX_RETRIES requests were issued.
C1_TentativasLimitadas ==
    /\ pedidos <= MAX_RETRIES
    /\ falhas <= pedidos
    /\ fetch_retornou =>
        /\ pedidos >= 1
        /\ (retorno = None) <=> (falhas = MAX_RETRIES)
        /\ (retorno = None) => (pedidos = MAX_RETRIES)
        /\ (retorno # None) => (retorno = response /\ falhas = pedidos - 1)

C1_Witness ==
    /\ fetch_retornou
    /\ retorno = None
    /\ pedidos = MAX_RETRIES

\* C2: an attempt answered with any 2xx status makes the fetcher return that
\* response at once: no further request and no wait follow it.
C2_Sucesso2xxRetorna ==
    [][ (/\ pc = "fetch_status"
         /\ response.tipo = "resposta"
         /\ response.status_code \in 200..299)
        => (/\ pc' = ponto_retorno
            /\ retorno' = response
            /\ pedidos' = pedidos
            /\ esperas' = esperas) ]_vars

\* C3: after failed attempt k < MAX_RETRIES the fetcher waits
\* RETRY_DELAY * RETRY_BACKOFF^(k-1) seconds before attempt k+1, and it does not
\* wait after attempt MAX_RETRIES: an exhausted call has waited 5, 10, 20 and 40
\* seconds, in that order.
C3_EsperasExponenciais ==
    /\ \A k \in DOMAIN esperas : esperas[k] = RETRY_DELAY * (RETRY_BACKOFF ^ (k - 1))
    /\ pc = "fetch" => (Len(esperas) = falhas /\ falhas = tentativa - 1)
    /\ pc = "fetch_status" => Len(esperas) = pedidos - 1
    /\ (pc = "fetch_fim" \/ (fetch_retornou /\ retorno = None)) =>
        /\ esperas = <<5, 10, 20, 40>>
        /\ Len(esperas) = MAX_RETRIES - 1
    /\ (fetch_retornou /\ retorno # None) => Len(esperas) = falhas

C3_Witness ==
    /\ pc = "fetch_fim"
    /\ falhas = MAX_RETRIES
    /\ esperas = <<5, 10, 20, 40>>

----------------------------------------------------------------------------
(* Properties of the pagination sweeps *)

RECURSIVE concatenar(_)
concatenar(listas) ==
    IF listas = <<>> THEN <<>>
    ELSE Head(listas) \o concatenar(Tail(listas))

paginas_pedidas(e) ==
    LET do_endpoint(p) == p[1] = e
        pedidos_e == SelectSeq(registro, do_endpoint)
    IN [i \in 1..Len(pedidos_e) |-> pedidos_e[i][2]]

maior(a, b) == IF a >= b THEN a ELSE b

\* the primary sweep has left its loop after a run of successful fetches whose
\* bodies all reported the total n
varredura_uniforme(n) ==
    /\ pc = "aberto_fim"
    /\ fim_varredura = "completa"
    /\ \A i \in DOMAIN totais : totais[i] = Int(n)

\* C4 (as amended): when every page fetch succeeds and every page reports the
\* same total N, the sweep performs exactly max(N, 1) iterations - the first
\* page is fetched before any total is known, so N = 0 still costs one fetch -,
\* stops with page_index >= total_pages and returns the concatenation of the
\* records of those pages, at most max(N, 1) x 100 records.
C4_IteracoesMaxN1 ==
    \A n \in 0..(MaxTotal + 1) :
        varredura_uniforme(n) =>
            /\ Len(servidas) = maior(n, 1)
            /\ paginas_pedidas("proposta") = [i \in 1..maior(n, 1) |-> i - 1]
            /\ pagina_atual = maior(n, 1)
            /\ pagina_atual >= total_paginas.n
            /\ todas_contratacoes = concatenar(servidas)
            /\ Len(todas_contratacoes) <= maior(n, 1) * tamanhoPagina

C4_Witness ==
    /\ varredura_uniforme(0)
    /\ Len(servidas) = 1
    /\ todas_contratacoes # <<>>

\* C4 as claimed: exactly N iterations and at most N x 100 records for every
\* N >= 0.
C4_IteracoesN ==
    \A n \in 0..(MaxTotal + 1) :
        varredura_uniforme(n) =>
            /\ Len(servidas) = n
            /\ paginas_pedidas("proposta") = [i \in 1..n |-> i - 1]
            /\ pagina_atual >= total_paginas.n
            /\ todas_contratacoes = concatenar(servidas)
            /\ Len(todas_contratacoes) <= n * tamanhoPagina

\* C5: when the fetch of page k exhausts its attempts after pages 0..k-1 were
\* processed, the primary sweep stops at once, raises nothing and returns the
\* records of pages 0..k-1 in page order; no later page is ever requested.
C5_FalhaDevolveParcial ==
    /\ (pc = "aberto_fim" /\ fim_varredura = "sem_resposta") =>
        /\ Len(servidas) = pagina_atual
        /\ paginas_pedidas("proposta") = [i \in 1..(pagina_atual + 1) |-> i - 1]
        /\ todas_contratacoes = concatenar(servidas)
        /\ excecao = "nenhuma"
    /\ (primario.retornou /\ primario.fim = "sem_resposta") =>
        /\ Len(paginas_pedidas("proposta")) = primario.paginas + 1
        /\ Len(primario.registros) <= primario.paginas * tamanhoPagina
        /\ primario.paginas = 0 => primario.registros = <<>>

C5_Witness ==
    /\ pc = "aberto_fim"
    /\ fim_varredura = "sem_resposta"
    /\ pagina_atual = 1
    /\ todas_contratacoes = <<1, 2>>

\* C6: whatever the shape of a fetched body - not JSON, no object, "data"
\* absent, null or ill-typed, "totalPaginas" absent, null or no integer - the
\* paginator raises nothing past its boundary.
C6_PaginadorNuncaLevanta ==
    ~(pc = "abortado" /\ excecao = "TypeError")

\* C7: the atualizacao endpoint is requested only after the primary sweep
\* returned no record, never when it returned one or more; the result of
\* consultar_contratacoes_recentes is the primary's records when there are any,
\* otherwise the alternate's, and empty when both are empty.
C7_AlternativoSoSeVazio ==
    /\ (pc \in {"alt_loop", "alt_resposta", "alt_fim"}
            \/ paginas_pedidas("atualizacao") # <<>>
            \/ alternativo.retornou) =>
        (primario.retornou /\ primario.registros = <<>>)
    /\ (primario.retornou /\ primario.registros # <<>>) =>
        (paginas_pedidas("atualizacao") = <<>> /\ ~alternativo.retornou)
    /\ pc = "filtrar" =>
        /\ primario.retornou
        /\ primario.registros # <<>> => contratacoes = primario.registros
        /\ primario.registros = <<>> =>
            (alternativo.retornou /\ contratacoes = alternativo.registros)

C7_Witness ==
    /\ pc = "filtrar"
    /\ primario.registros = <<>>
    /\ primario.fim = "sem_resposta"
    /\ alternativo.retornou
    /\ contratacoes = <<1, 2>>

----------------------------------------------------------------------------
(* Properties of a whole run and of its export and notification stages *)

\* C8: whatever the upstream API, the filesystem and the mail server do, a run
\* of main reaches its final banner: nothing ends the run before it.
C8_ChegaAoBannerFinal == pc # "abortado"

\* C9: a failure of the export stage - creating the directory, opening or
\* writing the file - or of the notification stage stays inside the stage,
\* which returns None or False; it never ends the run.
C9_FalhaFicaNaEtapa ==
    /\ ~(pc = "abortado" /\ excecao = "OSError")
    /\ (pc = "notificar" /\ ~arquivo.existe) => arquivo_csv = "None"
    /\ (pc = "banner_final" /\ mensagens = 0 /\ enviado # "nao_chamado") =>
        enviado = "False"

----------------------------------------------------------------------------
(* Properties of eh_do_parana *)

Delimitadores == {" ", ",", "."}

\* "pr" stands in s as a token: each side is an end of s or a delimiter
sigla_como_token(s) ==
    \E i \in 1..(Len(s) - 1) :
        /\ s[i] = "p" /\ s[i + 1] = "r"
        /\ i = 1 \/ s[i - 1] \in Delimitadores
        /\ i + 1 = Len(s) \/ s[i + 2] \in Delimitadores

\* neither text names the state in full or one of the cities of FILTRO_PARANA
sem_nome_nem_cidade(razao_social, objeto) ==
    /\ ~menciona_parana(razao_social)
    /\ ~menciona_parana(objeto)
    /\ \A i \in 4..Len(FILTRO_PARANA) :
        /\ ~contido(FILTRO_PARANA[i], razao_social)
        /\ ~contido(FILTRO_PARANA[i], objeto)

\* C10: for a record whose CNPJ does not start with "41" and whose name and
\* objeto contain neither the state's full name nor a city, eh_do_parana is true
\* when the lowercased name holds "pr" as a delimited token and false when "pr"
\* occurs in it only inside a longer word.
C10_SiglaSoComoToken ==
    LET cnpj == get(entrada, "cnpjOrgao", Str(<<>>)).v
        razao_social == lower(get(entrada, "razaoSocialOrgao", Str(<<>>)).v)
        objeto == lower(get(entrada, "objeto", Str(<<>>)).v)
    IN (/\ pc = "funcao_fim"
        /\ saida.fn = "eh_do_parana"
        /\ ~startswith(cnpj, <<"4", "1">>)
        /\ sem_nome_nem_cidade(razao_social, objeto)) =>
           /\ sigla_como_token(razao_social) => saida.valor
           /\ (contido(<<"p", "r">>, razao_social) /\ ~sigla_como_token(razao_social))
                  => ~saida.valor

----------------------------------------------------------------------------
(* Properties of filtrar_contratacoes_relevantes *)

\* positions of `lista` whose record passes both tests
posicoes_aprovadas(lista) ==
    { i \in DOMAIN lista :
        eh_relevante(Catalogo[lista[i]]) /\ eh_do_parana(Catalogo[lista[i]]) }

\* the j-th smallest element of a set of positions
j_esima(posicoes, j) ==
    CHOOSE i \in posicoes : Cardinality({k \in posicoes : k <= i}) = j

\* C11: filtrar_contratacoes_relevantes returns the records of its input that
\* pass both the keyword test and eh_do_parana, each as it was given, in input
\* order: none that fails a test is kept and none that passes both is dropped.
C11_SubsequenciaDosAprovados ==
    (pc = "funcao_fim" /\ saida.fn = "filtrar_contratacoes_relevantes") =>
        LET aprovadas == posicoes_aprovadas(contratacoes)
        IN /\ Len(relevantes) = Cardinality(aprovadas)
           /\ \A j \in DOMAIN relevantes :
                relevantes[j] = contratacoes[j_esima(aprovadas, j)]

C11_Witness ==
    /\ pc = "funcao_fim"
    /\ saida.fn = "filtrar_contratacoes_relevantes"
    /\ contratacoes = <<6, 4, 1>>
    /\ relevantes = <<6, 1>>

\* the text holds the word somewhere, letters compared without regard to case
ocorre_sem_caixa(palavra, texto) ==
    \E i \in 0..Len(texto) :
        /\ i + Len(palavra) <= Len(texto)
        /\ \A j \in 1..Len(palavra) :
            lower_char(texto[i + j]) = lower_char(palavra[j])

\* the description of a record as the API gave it; empty when there is none
descricao(contratacao) ==
    IF "objeto" \in DOMAIN contratacao.campos
    THEN contratacao.campos["objeto"].v
    ELSE <<>>

----------------------------------------------------------------------------
(* Properties of a run, from the pages served to the export file *)

\* the records main received from consultar_contratacoes_recentes
buscadas ==
    IF primario.registros # <<>> THEN primario.registros ELSE alternativo.registros

\* every sweep of the run ended because its pages were exhausted
toda_busca_completa ==
    /\ primario.retornou
    /\ primario.fim = "completa"
    /\ alternativo.retornou => alternativo.fim = "completa"

\* the records of a list that pass both tests, one after the other
RECURSIVE aprovadas_em_ordem(_)
aprovadas_em_ordem(lista) ==
    IF lista = <<>> THEN <<>>
    ELSE LET c == Catalogo[Head(lista)]
         IN (IF eh_relevante(c) /\ eh_do_parana(c) THEN <<Head(lista)>> ELSE <<>>)
            \o aprovadas_em_ordem(Tail(lista))

\* C13: in a run whose fetches all succeed and whose export stage returns a
\* path, the export file holds the header and then exactly one row for each
\* fetched record that passes the keyword and region tests, in fetch order; the
\* fixture "page 0 = record 1 (CNPJ 41000000000100, objeto with 'obra'), page 1 =
\* record 2 (passes neither test)" gives one row, whose URL is the base address
\* followed by the control number with "/" written as "%2F".
C13_ArquivoTemOsAprovados ==
    (toda_busca_completa /\ arquivo_csv = caminho_arquivo) =>
        LET aprovadas == aprovadas_em_ordem(buscadas)
        IN /\ arquivo.existe
           /\ Len(arquivo.linhas) = 1 + Len(aprovadas)
           /\ arquivo.linhas[1] = cabecalho
           /\ \A j \in DOMAIN aprovadas :
                /\ arquivo.linhas[j + 1][1] = Catalogo[aprovadas[j]].campos["numeroControle"].v
                /\ arquivo.linhas[j + 1][3] = Catalogo[aprovadas[j]].campos["cnpjOrgao"].v
                /\ arquivo.linhas[j + 1][4] = Catalogo[aprovadas[j]].campos["objeto"].v
           /\ primario.servidas = << <<1>>, <<2>> >> =>
                /\ Len(arquivo.linhas) = 2
                /\ arquivo.linhas[2][1] = <<"0", "0", "0", "1", "/", "2", "0", "2", "5">>
                /\ arquivo.linhas[2][3] = <<"4", "1", "0", "0", "0", "0", "0", "0", "0", "0", "0", "1", "0", "0">>
                /\ arquivo.linhas[2][9] = <<"h", "t", "t", "p", "s", ":", "/", "/", "p", "n", "c", "p", ".", "g", "o", "v", ".", "b", "r", "/", "c", "o", "n", "t", "r", "a", "t", "a", "c", "o", "e", "s", "/", "0", "0", "0", "1", "%", "2", "F", "2", "0", "2", "5">>

C13_Witness ==
    /\ pc = "fim"
    /\ toda_busca_completa
    /\ primario.servidas = << <<1>>, <<2>> >>
    /\ arquivo_csv = caminho_arquivo
    /\ Len(arquivo.linhas) = 2

----------------------------------------------------------------------------
(* Properties of salvar_resultados_csv and enviar_email_notificacao *)

\* C14: salvar_resultados_csv called with an empty list returns None and
\* leaves the filesystem as it was: the directory is not created and the export
\* file is neither created nor written.
C14_VazioNaoEscreve ==
    [][ (pc = "salvar" /\ relevantes = <<>>)
        => (/\ pc' = "notificar"
            /\ arquivo_csv' = "None"
            /\ pasta_existe' = pasta_existe
            /\ arquivo' = arquivo
            /\ escritas' = escritas) ]_vars

C14_Witness ==
    /\ pc = "notificar"
    /\ contratacoes # <<>>
    /\ relevantes = <<>>
    /\ arquivo_csv = "None"
    /\ ~pasta_existe
    /\ arquivo = SemArquivo

\* C15: enviar_email_notificacao returns False and opens no connection and
\* hands over no message whenever EMAIL_REMETENTE, EMAIL_SENHA or
\* EMAIL_DESTINATARIO is empty, or the path given is None, or no file exists at
\* that path.
C15_SemConfiguracaoNaoEnvia ==
    (/\ pc = "banner_final"
     /\ enviado # "nao_chamado"
     /\ \/ ~email_config.remetente
        \/ ~email_config.senha
        \/ ~email_config.destinatario
        \/ arquivo_csv = "None"
        \/ ~arquivo.existe) =>
        /\ enviado = "False"
        /\ submissoes = 0
        /\ mensagens = 0

C15_Witness ==
    /\ pc = "banner_final"
    /\ enviado = "False"
    /\ email_config = [remetente |-> TRUE, senha |-> TRUE, destinatario |-> TRUE]
    /\ arquivo_csv = caminho_arquivo
    /\ ~arquivo.existe
    /\ submissoes = 0

----------------------------------------------------------------------------
(* Properties of the page loop *)

\* the sweep is at its loop test and the body processed last had no totalPaginas
ultima_sem_total ==
    /\ pc \in {"aberto_loop", "alt_loop"}
    /\ totais # <<>>
    /\ totais[Len(totais)].t = "ausente"

em_varredura == endpoint \in {"proposta", "atualizacao"}

\* C17: at every point of a sweep the page index is the number of pages
\* processed so far and the accumulator is the concatenation of their records;
\* the pages requested are 0, 1, 2, ... in this order, each with page size 100,
\* none skipped and none requested again once processed; page 0 is always
\* requested, so a sweep that has left its loop has made at least one request.
C17_IndiceContaPaginas ==
    em_varredura =>
        LET pp == paginas_pedidas(endpoint)
        IN /\ pagina_atual = Len(servidas)
           /\ todas_contratacoes = concatenar(servidas)
           /\ \A i \in DOMAIN pp : pp[i] = i - 1
           /\ \A i \in DOMAIN registro : registro[i][3] = 100
           /\ pc \in {"aberto_loop", "alt_loop"} => Len(pp) = pagina_atual
           /\ pc \in {"fetch", "fetch_status", "fetch_fim", "aberto_resposta", "alt_resposta"}
                => Len(pp) = pagina_atual + 1
           /\ pc \in {"aberto_fim", "alt_fim"} =>
                /\ Len(pp) >= 1
                /\ Len(pp) \in {pagina_atual, pagina_atual + 1}

C17_Witness ==
    /\ pc = "fetch_status"
    /\ endpoint = "proposta"
    /\ pagina_atual = 1
    /\ servidas = << <<1, 2>> >>
    /\ paginas_pedidas("proposta") = <<0, 1>>
    /\ pedidos = 2

----------------------------------------------------------------------------
(* Properties of the order of the stages of main *)

\* the stages of main in the order of its statements (lines 403-423)
ordem_das_etapas ==
    <<"status", "consulta", "filtro", "exportacao", "notificacao", "fim">>

\* s is the start of t
prefixo_de(s, t) == Len(s) <= Len(t) /\ SubSeq(t, 1, Len(s)) = s

\* C18: in a run of main the stages are entered in the order gather, filter,
\* export, notify (the notifier may be left out); the export file is opened for
\* writing at most once and at most one connection is opened and one message
\* handed over; the notifier is entered only after the export stage returned a
\* path for a non-empty filtered list; when the gather stage or the filter
\* leaves no record, no file is written and nothing is mailed.
C18_EtapasEmOrdem ==
    /\ \/ prefixo_de(etapas, ordem_das_etapas)
       \/ etapas = <<"status", "consulta", "filtro", "exportacao", "fim">>
    /\ escritas <= 1
    /\ submissoes <= 1
    /\ mensagens <= 1
    /\ (pc = "email" \/ enviado # "nao_chamado" \/ submissoes > 0 \/ mensagens > 0) =>
        /\ prefixo_de(<<"status", "consulta", "filtro", "exportacao", "notificacao">>, etapas)
        /\ arquivo_csv = caminho_arquivo
        /\ relevantes # <<>>
        /\ escritas = 1
    /\ (escritas > 0 \/ arquivo.existe) =>
        /\ prefixo_de(<<"status", "consulta", "filtro", "exportacao">>, etapas)
        /\ contratacoes # <<>>
        /\ relevantes # <<>>
    /\ (contratacoes = <<>> \/ relevantes = <<>>) =>
        /\ arquivo = SemArquivo
        /\ escritas = 0
        /\ submissoes = 0
        /\ mensagens = 0
        /\ enviado = "nao_chamado"

C18_Witness ==
    /\ pc = "fim"
    /\ etapas = ordem_das_etapas
    /\ escritas = 1
    /\ submissoes = 1
    /\ mensagens = 1
    /\ enviado = "True"

----------------------------------------------------------------------------
(* The pagination rule, stated once and held against both sweeps *)

\* the page count a processed body gives: its totalPaginas, or 0 without one
total_lido(t) == IF t.t = "ausente" THEN 0 ELSE t.n

\* the rule goes on to request page j after j pages were processed
regra_continua(j) ==
    /\ totais[j].t \in {"int", "ausente"}
    /\ j < total_lido(totais[j])

\* The rule: start at page 0; after each processed page go on exactly while
\* the number of pages processed is below the count of the last body; stop at
\* once when a fetch gives nothing or a body cannot be read; return the
\* records of the processed pages in page order. The requests and the result
\* are a function of the bodies and outcomes served.
regra_de_paginacao(e) ==
    LET k == Len(servidas)
        pp == paginas_pedidas(e)
    IN /\ Len(totais) = k
       /\ \A j \in 1..(k - 1) : regra_continua(j)
       /\ todas_contratacoes = concatenar(servidas)
       /\ fim_varredura \in {"completa", "sem_resposta", "erro_processamento"}
       /\ fim_varredura = "completa" =>
            /\ k >= 1
            /\ ~regra_continua(k)
            /\ pp = [i \in 1..k |-> i - 1]
       /\ fim_varredura # "completa" =>
            /\ k >= 1 => regra_continua(k)
            /\ pp = [i \in 1..(k + 1) |-> i - 1]

\* C19: the alternate sweep of consultar_contratacoes_recentes and the primary
\* sweep consultar_contratacoes_em_aberto obey one and the same rule, under
\* which the pages requested and the records returned are determined by the
\* outcomes and bodies served: both start at page 0, both stop when the page
\* index reaches the page count, both stop early with the partial result when
\* a fetch or the reading of a body fails, and each returns its accumulator.
C19_MesmaRegraNasDuasVarreduras ==
    /\ (pc = "aberto_fim" /\ endpoint = "proposta") => regra_de_paginacao("proposta")
    /\ (pc = "alt_fim" /\ endpoint = "atualizacao") => regra_de_paginacao("atualizacao")
    /\ primario.retornou =>
        /\ primario.registros = concatenar(primario.servidas)
        /\ primario.paginas = Len(primario.servidas)
    /\ alternativo.retornou =>
        /\ alternativo.registros = concatenar(alternativo.servidas)
        /\ alternativo.paginas = Len(alternativo.servidas)
    /\ (/\ primario.retornou
        /\ pc = "alt_fim"
        /\ servidas = primario.servidas
        /\ fim_varredura = primario.fim) =>
            /\ todas_contratacoes = primario.registros
            /\ Len(paginas_pedidas("atualizacao")) = Len(paginas_pedidas("proposta"))

C19_Witness ==
    /\ pc = "alt_fim"
    /\ fim_varredura = "completa"
    /\ totais = <<Int(2), Int(2)>>
    /\ servidas = << <<1>>, <<2>> >>
    /\ primario.fim = "completa"
    /\ primario.servidas = << <<>>, <<>> >>
    /\ paginas_pedidas("atualizacao") = paginas_pedidas("proposta")

====
